---- MODULE Spec2Model ----
(***************************************************************************)
(* A model of the Railz.ai connector components                            *)
(* (source_railz_ai/components.py): the short-lived token authenticator,   *)
(* the business/service stream slicers with their cursors, the retriever   *)
(* that isolates failing services, the nested record extractor and the     *)
(* report selectors.                                                       *)
(*                                                                         *)
(* Each component has its own specification (SpecToken, SpecRetriever,     *)
(* SpecSlices, SpecCursor, SpecIncr, SpecWindows, ...); the variables of   *)
(* the components a specification does not run stay at their constructed   *)
(* value.                                                                  *)
(***************************************************************************)
EXTENDS Integers, Sequences, FiniteSets, TLC

VARIABLES
    \* ShortLivedTokenAuthenticator
    lifetime,       \* the configured ISO-8601 duration (self.lifetime)
    now,            \* the wall clock read by time.time()
    _token,         \* self._token
    _timestamp,     \* self._timestamp
    lastAuth,       \* what the last evaluation of the token property did
    \* RailzAiServiceRetriever
    _failed_services,   \* self._failed_services
    sync,           \* the sync the retriever was constructed for, and whether it runs
    readErrors,     \* services whose underlying read raised ReadException in this sync
    errorSlices,    \* the slices whose underlying read raised ReadException in this sync
    lastRead,       \* what the last read_records call did
    \* RailzAiServiceSlicer.stream_slices
    parent_stream_config,   \* None or the parent stream's slices and records
    slices,         \* the slices stream_slices yielded
    pc,             \* "input" while the parent stream is set up, then "done"
    \* RailzAiServiceSlicer cursor
    _cursor,        \* self._cursor of a RailzAiServiceSlicer
    processed,      \* (businessName, serviceName) pairs updated with a record
    cursorCalls,    \* [withRecord, withoutRecord]: update_cursor calls so far
    \* RailzAiIncrementalServiceSlicer cursor
    _icursor,       \* self._cursor of a RailzAiIncrementalServiceSlicer
    lastUpdate,     \* what the last update_cursor call was given and found
    \* RailzAiIncrementalServiceSlicer.stream_slices and get_request_params
    stream_state,   \* the persisted state the sync was started from
    windows,        \* the slices stream_slices yielded
    wpc,            \* "input" until stream_slices ran, then "sliced"
    wpos,           \* how many of the yielded slices the sync has processed
    lastParams,     \* what the last get_request_params call was given and returned
    \* RailzNestedExtractor
    extractor,      \* the configured fields and what __post_init__ raised
    response_json,  \* the decoded body of the response given to extract_records
    extracted,      \* None, or what extract_records returned or raised
    xpc,            \* "input" while the response is set up, then "done"
    \* RailzAiReportsSelector
    selector,       \* the selector's class and its meta_fields after __post_init__
    raw_records,    \* the {data, meta} records the base selector returns
    selected,       \* None, or what select_records returned
    \* A sync that reads its slices through the retriever and the authenticator
    todo,           \* how many slices the sync has to read
    held,           \* per service, how many records the source held for the slices read
    emitted         \* per service, how many records the sync has emitted

tokenVars == <<lifetime, now, _token, _timestamp, lastAuth>>
retrieverVars == <<_failed_services, sync, readErrors, errorSlices, lastRead>>
sliceVars == <<parent_stream_config, slices, pc>>
cursorVars == <<_cursor, processed, cursorCalls>>
incrVars == <<_icursor, lastUpdate>>
windowVars == <<stream_state, windows, wpc, wpos, lastParams>>
extractVars == <<extractor, response_json, extracted, xpc>>
selectVars == <<selector, raw_records, selected>>
runVars == <<todo, held, emitted>>
vars ==
    <<tokenVars, retrieverVars, sliceVars, cursorVars, incrVars, windowVars, extractVars,
      selectVars, runVars>>

\* What the operations of one component leave alone: the other components.
TokenFrame ==
    UNCHANGED <<retrieverVars, sliceVars, cursorVars, incrVars, windowVars, extractVars, selectVars,
                runVars>>
RetrieverFrame ==
    UNCHANGED <<tokenVars, sliceVars, cursorVars, incrVars, windowVars, extractVars, selectVars,
                runVars>>
SliceFrame ==
    UNCHANGED <<tokenVars, retrieverVars, cursorVars, incrVars, windowVars, extractVars, selectVars,
                runVars>>
CursorFrame ==
    UNCHANGED <<tokenVars, retrieverVars, sliceVars, incrVars, windowVars, extractVars, selectVars,
                runVars>>
IncrFrame ==
    UNCHANGED <<tokenVars, retrieverVars, sliceVars, cursorVars, windowVars, extractVars, selectVars,
                runVars>>
WindowFrame ==
    UNCHANGED <<tokenVars, retrieverVars, sliceVars, cursorVars, extractVars, selectVars,
                runVars>>
ExtractFrame ==
    UNCHANGED <<tokenVars, retrieverVars, sliceVars, cursorVars, incrVars, windowVars,
                selectVars, runVars>>
SelectFrame ==
    UNCHANGED <<tokenVars, retrieverVars, sliceVars, cursorVars, incrVars, windowVars,
                extractVars, runVars>>
SyncFrame == UNCHANGED <<sliceVars, cursorVars, incrVars, windowVars, extractVars, selectVars>>

\* Python's None and a present value, as sequences of length 0 and 1.
None == <<>>
Some(x) == <<x>>
Val(opt) == opt[1]

\* ------------------------------------------------------------------ bounds

\* The clock runs from 0 to MaxDays days.
MaxDays == 2

\* The underlying read yields at most MaxRecords records for a slice.
MaxRecords == 1

\* A sync reads at most MaxSlices slices, and there are at most MaxSyncs syncs.
MaxSlices == 3
MaxSyncs == 2

\* The parent stream has at most MaxParentSlices slices, which hold at most
\* MaxParentRecords messages and MaxConnections connections in all.
MaxParentSlices == 2
MaxParentRecords == 2
MaxConnections == 2

\* A slicer's update_cursor is called at most MaxCursorCalls times.
MaxCursorCalls == 4

\* Cursor values and window bounds are the dates 1..MaxDate.
MaxDate == 2

\* stream_slices of the incremental slicer is given at most MaxPairs parent slices.
MaxPairs == 2

\* The response given to the nested extractor holds at most MaxNodes nested objects.
MaxNodes == 3

\* The base selector returns at most MaxRaw {data, meta} records.
MaxRaw == 2

(***************************************************************************)
(* ShortLivedTokenAuthenticator                                            *)
(***************************************************************************)

SecondsPerDay == 24 * 3600

\* An ISO-8601 duration string, as its sequence of <number><designator> elements:
\* "P1DT1H" is <<El(1, "D"), El(1, "H")>> and the empty string is <<>>.
El(n, designator) == [n |-> n, designator |-> designator]

\* The empty string (a missing duration).
EmptyDuration == <<>>

\* The class default, lifetime = "PT3600S".
DefaultLifetime == <<El(3600, "S")>>

\* The durations the authenticator is configured with.
Lifetimes ==
    { EmptyDuration,
      DefaultLifetime,
      <<El(30, "M")>>,                  \* PT30M
      <<El(1, "D")>>,                   \* P1D
      <<El(1, "D"), El(1, "H")>> }      \* P1DT1H

\* The seconds one unit of a designator lasts.
UnitSeconds(designator) ==
    CASE designator = "D" -> SecondsPerDay
      [] designator = "H" -> 3600
      [] designator = "M" -> 60
      [] designator = "S" -> 1

RECURSIVE SumSeconds(_)
SumSeconds(str) ==
    IF str = <<>> THEN 0
    ELSE Head(str).n * UnitSeconds(Head(str).designator) + SumSeconds(Tail(str))

\* datetime.timedelta normalises its arguments to days and 0 <= seconds < 86400.
timedelta(totalSeconds) ==
    [days |-> totalSeconds \div SecondsPerDay, seconds |-> totalSeconds % SecondsPerDay]

\* isodate.parse_duration on a duration without years and months.
parse_duration(str) == timedelta(SumSeconds(str))

\* _parse_timedelta that takes the default lifetime for a falsy string.
_parse_timedelta_defaulting(time_str) ==
    IF time_str = EmptyDuration THEN parse_duration(<<El(3600, "S")>>)
    ELSE parse_duration(time_str)

\* _parse_timedelta: a falsy string is timedelta(0).
_parse_timedelta(time_str) ==
    IF time_str = EmptyDuration THEN timedelta(0) ELSE parse_duration(time_str)

\* The seconds check_token compares the token's age with: lifetime.seconds.
LifetimeSeconds(td) == td.seconds

\* Whether check_token asks for a new token.
NeedsFetch(tok, ts, t, life) ==
    tok = None \/ t - Val(ts) >= LifetimeSeconds(_parse_timedelta(life))

\* The responses of the token endpoint: an HTTP status and a JSON body.
TokenKey == "access_token"
Tokens == {"tokA", "tokB"}
Response(ok, json) == [ok |-> ok, json |-> json]
Responses ==
    { Response(TRUE, TokenKey :> t) : t \in Tokens }
        \cup { Response(TRUE, "error" :> "denied"), Response(FALSE, "error" :> "denied") }

\* Whether check_token raises on the response: raise_for_status, or the key is absent.
FetchRaises(response) == ~response.ok \/ TokenKey \notin DOMAIN response.json

\* No call was made at the current instant.
NoAuth ==
    [called |-> FALSE, fetched |-> FALSE, raised |-> FALSE, response |-> None,
     prevToken |-> None, prevTimestamp |-> None, header |-> None]

\* __post_init__ of an authenticator configured with a lifetime.
TokenPostInit(configured) ==
    /\ lifetime = configured
    /\ now = 0
    /\ _token = None
    /\ _timestamp = None
    /\ lastAuth = NoAuth

TokenInit == \E configured \in Lifetimes : TokenPostInit(configured)

\* check_token, had it stamped the cache before the response was checked.
check_token_stamped(response) ==
    IF ~NeedsFetch(_token, _timestamp, now, lifetime)
    THEN [fetched |-> FALSE, raised |-> FALSE, _token |-> _token, _timestamp |-> _timestamp]
    ELSE IF FetchRaises(response)
    THEN [fetched |-> TRUE, raised |-> TRUE, _token |-> _token, _timestamp |-> Some(now)]
    ELSE [fetched |-> TRUE, raised |-> FALSE,
          _token |-> Some(response.json[TokenKey]), _timestamp |-> Some(now)]

\* check_token with the answer the token endpoint gives if it is asked: whether
\* the endpoint was asked, whether the call raised, and the cache afterwards.
check_token(response) ==
    IF ~NeedsFetch(_token, _timestamp, now, lifetime)
    THEN [fetched |-> FALSE, raised |-> FALSE, _token |-> _token, _timestamp |-> _timestamp]
    ELSE IF FetchRaises(response)
    THEN [fetched |-> TRUE, raised |-> TRUE, _token |-> _token, _timestamp |-> _timestamp]
    ELSE [fetched |-> TRUE, raised |-> FALSE,
          _token |-> Some(response.json[TokenKey]), _timestamp |-> Some(now)]

\* The token property: check_token, then "Bearer <token>".
token(response) ==
    LET checked == check_token(response)
    IN  /\ _token' = checked._token
        /\ _timestamp' = checked._timestamp
        /\ lastAuth' =
             [called |-> TRUE, fetched |-> checked.fetched, raised |-> checked.raised,
              response |-> IF checked.fetched THEN Some(response) ELSE None,
              prevToken |-> _token, prevTimestamp |-> _timestamp,
              header |-> IF checked.raised THEN None
                         ELSE Some(<<"Bearer", Val(checked._token)>>)]
        /\ UNCHANGED <<lifetime, now>>
        /\ TokenFrame

\* Time passes between two calls.
ClockSteps == {1800, 3600, SecondsPerDay}

Tick(d) ==
    /\ now + d <= MaxDays * SecondsPerDay
    /\ now' = now + d
    /\ lastAuth' = NoAuth
    /\ UNCHANGED <<lifetime, _token, _timestamp>>
    /\ TokenFrame

TokenNext ==
    \/ \E response \in Responses : token(response)
    \/ \E d \in ClockSteps : Tick(d)

(***************************************************************************)
(* RailzAiServiceRetriever                                                 *)
(***************************************************************************)

BusinessNames == {"B1", "B2"}
ServiceNames == {"S1", "S2"}

\* The sequences over S of length at most n.
SeqsUpTo(S, n) == UNION { [1..k -> S] : k \in 0..n }

\* The {businessName, serviceName} slices.
ServiceSlice(b, s) == [businessName |-> b, serviceName |-> s]
ServiceSlices == { ServiceSlice(b, s) : b \in BusinessNames, s \in ServiceNames }

\* What SimpleRetriever.read_records does for a slice when it is called: the records
\* it yields, and how it ends: exhausted ("ok"), raising ReadException, or raising
\* any other exception.
RecordIds == {"r1", "r2"}
Outcomes == {"ok", "ReadException", "OtherError"}
UnderlyingReads ==
    { [records |-> r, outcome |-> o] : r \in SeqsUpTo(RecordIds, MaxRecords), o \in Outcomes }

NoRead ==
    [called |-> FALSE, stream_slice |-> ServiceSlice("", ""), priorError |-> FALSE,
     delegated |-> FALSE, records |-> <<>>, raised |-> None,
     underlying |-> [records |-> <<>>, outcome |-> "ok"]]

\* __post_init__, had _failed_services been shared by the retrievers of a process.
RetrieverSharedSet(older) == older

\* __post_init__: self._failed_services = set(), whatever an older retriever holds.
RetrieverPostInit(older) == {}

RetrieverInit ==
    /\ _failed_services = RetrieverPostInit({})
    /\ sync = [id |-> 1, status |-> "running", reads |-> 0, earlier |-> {}]
    /\ readErrors = {}
    /\ errorSlices = {}
    /\ lastRead = NoRead

\* The next sync constructs its own retriever.
NewSync ==
    /\ sync.id < MaxSyncs
    /\ _failed_services' = RetrieverPostInit(_failed_services)
    /\ sync' = [id |-> sync.id + 1, status |-> "running", reads |-> 0,
                earlier |-> sync.earlier \cup readErrors]
    /\ readErrors' = {}
    /\ errorSlices' = {}
    /\ lastRead' = NoRead
    /\ RetrieverFrame

\* read_records without the check of _failed_services.
read_records_unchecked(stream_slice, underlying) ==
    IF underlying.outcome = "ReadException"
    THEN [delegated |-> TRUE, records |-> underlying.records, raised |-> None,
          _failed_services |-> _failed_services \cup {stream_slice.serviceName}]
    ELSE [delegated |-> TRUE, records |-> underlying.records,
          raised |-> IF underlying.outcome = "ok" THEN None ELSE Some(underlying.outcome),
          _failed_services |-> _failed_services]

\* read_records that re-raises ReadException after recording the service.
read_records_reraising(stream_slice, underlying) ==
    IF stream_slice.serviceName \in _failed_services
    THEN [delegated |-> FALSE, records |-> <<>>, raised |-> None,
          _failed_services |-> _failed_services]
    ELSE [delegated |-> TRUE, records |-> underlying.records,
          raised |-> IF underlying.outcome = "ok" THEN None ELSE Some(underlying.outcome),
          _failed_services |->
              IF underlying.outcome = "ReadException"
              THEN _failed_services \cup {stream_slice.serviceName} ELSE _failed_services]

\* read_records with "except Exception" in place of "except ReadException".
read_records_catch_all(stream_slice, underlying) ==
    IF stream_slice.serviceName \in _failed_services
    THEN [delegated |-> FALSE, records |-> <<>>, raised |-> None,
          _failed_services |-> _failed_services]
    ELSE [delegated |-> TRUE, records |-> underlying.records, raised |-> None,
          _failed_services |->
              IF underlying.outcome = "ok" THEN _failed_services
              ELSE _failed_services \cup {stream_slice.serviceName}]

\* read_records, had the failures been kept per (businessName, serviceName): a slice
\* is skipped when a read of that same connection raised ReadException.
read_records_per_connection(stream_slice, underlying) ==
    IF stream_slice \in errorSlices
    THEN [delegated |-> FALSE, records |-> <<>>, raised |-> None,
          _failed_services |-> _failed_services]
    ELSE IF underlying.outcome = "ReadException"
    THEN [delegated |-> TRUE, records |-> underlying.records, raised |-> None,
          _failed_services |-> _failed_services \cup {stream_slice.serviceName}]
    ELSE [delegated |-> TRUE, records |-> underlying.records,
          raised |-> IF underlying.outcome = "ok" THEN None ELSE Some(underlying.outcome),
          _failed_services |-> _failed_services]

\* read_records, consumed to its end: whether super().read_records was called, the
\* records yielded, the exception that left the generator, and _failed_services.
read_records(stream_slice, underlying) ==
    IF stream_slice.serviceName \in _failed_services
    THEN [delegated |-> FALSE, records |-> <<>>, raised |-> None,
          _failed_services |-> _failed_services]
    ELSE IF underlying.outcome = "ReadException"
    THEN [delegated |-> TRUE, records |-> underlying.records, raised |-> None,
          _failed_services |-> _failed_services \cup {stream_slice.serviceName}]
    ELSE [delegated |-> TRUE, records |-> underlying.records,
          raised |-> IF underlying.outcome = "ok" THEN None ELSE Some(underlying.outcome),
          _failed_services |-> _failed_services]

\* The sync reads one slice; an exception that leaves read_records ends the sync.
ReadSlice(stream_slice, underlying) ==
    LET read == read_records(stream_slice, underlying)
    IN  /\ sync.status = "running"
        /\ sync.reads < MaxSlices
        /\ _failed_services' = read._failed_services
        /\ readErrors' =
             IF read.delegated /\ underlying.outcome = "ReadException"
             THEN readErrors \cup {stream_slice.serviceName} ELSE readErrors
        /\ errorSlices' =
             IF read.delegated /\ underlying.outcome = "ReadException"
             THEN errorSlices \cup {stream_slice} ELSE errorSlices
        /\ sync' = [sync EXCEPT !.reads = @ + 1,
                                !.status = IF read.raised = None THEN "running" ELSE "aborted"]
        /\ lastRead' =
             [called |-> TRUE, stream_slice |-> stream_slice,
              priorError |-> stream_slice.serviceName \in readErrors,
              delegated |-> read.delegated, records |-> read.records,
              raised |-> read.raised, underlying |-> underlying]
        /\ RetrieverFrame

RetrieverNext ==
    \/ NewSync
    \/ \E stream_slice \in ServiceSlices, underlying \in UnderlyingReads :
           ReadSlice(stream_slice, underlying)

(***************************************************************************)
(* RailzAiServiceSlicer.stream_slices                                      *)
(***************************************************************************)

\* The connections of a parent record: a service and the status of the connection.
\* Each status occurs, and both services occur with a status that makes a slice.
Connection(s, status) == [serviceName |-> s, status |-> status]
Connections ==
    { Connection("S1", "active"), Connection("S2", "disconnected"),
      Connection("S1", "expired"), Connection("S2", "pending") }

\* What parent_stream.read_records yields: a record ("RECORD": a mapping, or an
\* AirbyteMessage of type RECORD, which is unwrapped to its mapping), or an
\* AirbyteMessage of another type ("LOG").
ParentMessage(kind, b) == [kind |-> kind, businessName |-> b, connections |-> <<>>]
ParentMessages ==
    { ParentMessage("RECORD", b) : b \in BusinessNames } \cup { ParentMessage("LOG", "") }

\* _check_valid_service
EligibleStatuses == {"active", "disconnected", "expired"}
\* _check_valid_service without "expired".
_check_valid_service_narrow(connection) == connection.status \in {"active", "disconnected"}

_check_valid_service(connection) == connection.status \in EligibleStatuses

\* A slicer with the given parent_stream_config, before stream_slices runs.
SlicerConfigured(config) ==
    /\ parent_stream_config = config
    /\ slices = <<>>
    /\ pc = "input"

SliceInit == \E config \in {None, Some(<<>>)} : SlicerConfigured(config)

RECURSIVE SumLen(_)
SumLen(seqs) == IF seqs = <<>> THEN 0 ELSE Len(Head(seqs)) + SumLen(Tail(seqs))

\* The messages and the connections a parent stream holds.
MessageCount(parent) == SumLen(parent)
ConnectionCount(parent) ==
    SumLen([i \in 1..Len(parent) |->
               [n \in 1..SumLen([j \in 1..Len(parent[i]) |-> parent[i][j].connections]) |-> 0]])

\* The parent stream gets one more slice,
ParentSlice ==
    /\ pc = "input"
    /\ parent_stream_config # None
    /\ Len(Val(parent_stream_config)) < MaxParentSlices
    /\ parent_stream_config' = Some(Append(Val(parent_stream_config), <<>>))
    /\ UNCHANGED <<slices, pc>>
    /\ SliceFrame

\* its last slice one more message,
ParentRecord(message) ==
    /\ pc = "input"
    /\ parent_stream_config # None
    /\ LET parent == Val(parent_stream_config)
           n == Len(parent)
       IN  /\ n > 0
           /\ MessageCount(parent) < MaxParentRecords
           /\ parent_stream_config' = Some([parent EXCEPT ![n] = Append(@, message)])
    /\ UNCHANGED <<slices, pc>>
    /\ SliceFrame

\* and its last record one more connection.
ParentConnection(connection) ==
    /\ pc = "input"
    /\ parent_stream_config # None
    /\ LET parent == Val(parent_stream_config)
           n == Len(parent)
       IN  /\ n > 0
           /\ Len(parent[n]) > 0
           /\ parent[n][Len(parent[n])].kind # "LOG"
           /\ ConnectionCount(parent) < MaxConnections
           /\ parent_stream_config' =
                Some([parent EXCEPT ![n][Len(parent[n])].connections = Append(@, connection)])
    /\ UNCHANGED <<slices, pc>>
    /\ SliceFrame

\* for connection in parent_record["connections"]
RECURSIVE ConnectionSlices(_, _)
ConnectionSlices(parent_record, connections) ==
    IF connections = <<>> THEN <<>>
    ELSE (IF _check_valid_service(Head(connections))
          THEN <<ServiceSlice(parent_record.businessName, Head(connections).serviceName)>>
          ELSE <<>>)
         \o ConnectionSlices(parent_record, Tail(connections))

\* for parent_record in parent_stream.read_records(...)
RECURSIVE RecordSlices(_)
RecordSlices(messages) ==
    IF messages = <<>> THEN <<>>
    ELSE (IF Head(messages).kind = "LOG" THEN <<>>
          ELSE ConnectionSlices(Head(messages), Head(messages).connections))
         \o RecordSlices(Tail(messages))

\* for parent_stream_slice in parent_stream.stream_slices(...)
RECURSIVE ParentSlices(_)
ParentSlices(parent) ==
    IF parent = <<>> THEN <<>>
    ELSE RecordSlices(Head(parent)) \o ParentSlices(Tail(parent))

\* stream_slices, consumed to its end.
stream_slices(config) ==
    IF config = None THEN <<>> ELSE ParentSlices(Val(config))

StreamSlices ==
    /\ pc = "input"
    /\ slices' = stream_slices(parent_stream_config)
    /\ pc' = "done"
    /\ UNCHANGED parent_stream_config
    /\ SliceFrame

SliceNext ==
    \/ ParentSlice
    \/ \E message \in ParentMessages : ParentRecord(message)
    \/ \E connection \in Connections : ParentConnection(connection)
    \/ StreamSlices

(***************************************************************************)
(* Cursors: Python dicts are functions from their keys                     *)
(***************************************************************************)

EmptyDict == [k \in {} |-> {}]

\* d[key] = value
DictSet(d, key, value) ==
    [k \in DOMAIN d \cup {key} |-> IF k = key THEN value ELSE d[k]]

\* d.update(other)
DictUpdate(d, other) ==
    [k \in DOMAIN d \cup DOMAIN other |-> IF k \in DOMAIN other THEN other[k] ELSE d[k]]

\* RailzAiServiceSlicer.__post_init__: self._cursor = {}
SlicerPostInit == EmptyDict

\* get_stream_state: self._cursor if self._cursor else {}
get_stream_state(cursor) == IF cursor # EmptyDict THEN cursor ELSE EmptyDict

(***************************************************************************)
(* RailzAiServiceSlicer.update_cursor                                      *)
(***************************************************************************)

\* update_cursor that assigns the service in place of adding it to the set.
update_cursor_assigning(cursor, stream_slice, last_record) ==
    IF last_record = None
    THEN DictUpdate(cursor, stream_slice)
    ELSE DictSet(cursor, stream_slice.businessName, {stream_slice.serviceName})

\* The cursor after update_cursor(stream_slice, last_record).
update_cursor(cursor, stream_slice, last_record) ==
    IF last_record = None
    THEN DictUpdate(cursor, stream_slice)
    ELSE LET b == stream_slice.businessName
             created == IF b \notin DOMAIN cursor THEN DictSet(cursor, b, {}) ELSE cursor
         IN  DictSet(created, b, created[b] \cup {stream_slice.serviceName})

CursorInit ==
    /\ _cursor = SlicerPostInit
    /\ processed = {}
    /\ cursorCalls = [withRecord |-> 0, withoutRecord |-> 0]

UpdateCursor(stream_slice, last_record) ==
    /\ cursorCalls.withRecord + cursorCalls.withoutRecord < MaxCursorCalls
    /\ _cursor' = update_cursor(_cursor, stream_slice, last_record)
    /\ processed' =
         IF last_record = None THEN processed
         ELSE processed \cup {<<stream_slice.businessName, stream_slice.serviceName>>}
    /\ cursorCalls' =
         IF last_record = None THEN [cursorCalls EXCEPT !.withoutRecord = @ + 1]
         ELSE [cursorCalls EXCEPT !.withRecord = @ + 1]
    /\ CursorFrame

CursorNext ==
    \E stream_slice \in ServiceSlices, last_record \in {None} \cup {Some(r) : r \in RecordIds} :
        UpdateCursor(stream_slice, last_record)

(***************************************************************************)
(* RailzAiIncrementalServiceSlicer.update_cursor                           *)
(***************************************************************************)

\* The datetime slicer's cursor_field; its slice fields are start_time and end_time.
CursorField == "postedDate"
Dates == 1..MaxDate

\* The slices of the incremental slicer: a pair and a datetime window.
WindowSlice(b, s, start, end) ==
    [businessName |-> b, serviceName |-> s, start_time |-> start, end_time |-> end]
WindowSlices ==
    { WindowSlice(b, s, d, d + 1) : b \in BusinessNames, s \in ServiceNames,
                                    d \in 1..(MaxDate - 1) }

\* The records read for a slice carry the cursor field.
DatedRecords == { CursorField :> d : d \in Dates }

\* self._cursor[businessName][serviceName][cursor field], None where a level is missing.
StoredCursor(cursor, b, s) ==
    IF b \in DOMAIN cursor /\ s \in DOMAIN cursor[b] /\ CursorField \in DOMAIN cursor[b][s]
    THEN Some(cursor[b][s][CursorField]) ELSE None

\* update_cursor that stores every record's value.
Overwrites(service, value) == TRUE

\* Whether update_cursor stores the record's value: nothing stored, or a smaller value.
Advances(service, value) ==
    CursorField \notin DOMAIN service \/ service[CursorField] < value

\* update_cursor that starts the business's mapping afresh for the record's service.
incremental_update_cursor_per_business(cursor, stream_slice, last_record) ==
    IF last_record = None
    THEN DictUpdate(cursor, stream_slice)
    ELSE DictSet(cursor, stream_slice.businessName,
                 stream_slice.serviceName :> (CursorField :> Val(last_record)[CursorField]))

\* The cursor after update_cursor(stream_slice, last_record).
incremental_update_cursor(cursor, stream_slice, last_record) ==
    IF last_record = None
    THEN DictUpdate(cursor, stream_slice)
    ELSE LET b == stream_slice.businessName
             s == stream_slice.serviceName
             c1 == IF b \notin DOMAIN cursor THEN DictSet(cursor, b, EmptyDict) ELSE cursor
             c2 == IF s \notin DOMAIN c1[b]
                   THEN DictSet(c1, b, DictSet(c1[b], s, EmptyDict)) ELSE c1
             service == c2[b][s]
             last_record_cursor_value == Val(last_record)[CursorField]
         IN  IF Advances(service, last_record_cursor_value)
             THEN DictSet(c2, b,
                      DictSet(c2[b], s, DictSet(service, CursorField, last_record_cursor_value)))
             ELSE c2

NoUpdate ==
    [kind |-> "none", stream_slice |-> WindowSlice("", "", 0, 0), stored |-> None,
     last_record |-> None]

IncrInit ==
    /\ _icursor = SlicerPostInit
    /\ lastUpdate = NoUpdate

IncrementalUpdateCursor(stream_slice, last_record) ==
    /\ _icursor' = incremental_update_cursor(_icursor, stream_slice, last_record)
    /\ lastUpdate' =
         [kind |-> IF last_record = None THEN "absent" ELSE "record",
          stream_slice |-> stream_slice,
          stored |-> StoredCursor(_icursor, stream_slice.businessName, stream_slice.serviceName),
          last_record |-> last_record]
    /\ IncrFrame

IncrNext ==
    \E stream_slice \in WindowSlices, last_record \in {None} \cup {Some(r) : r \in DatedRecords} :
        IncrementalUpdateCursor(stream_slice, last_record)

(***************************************************************************)
(* RailzAiIncrementalServiceSlicer.stream_slices and get_request_params    *)
(***************************************************************************)

\* A date string is its day number; the datetime it parses to is a record.
parse_date(date) == [ordinal |-> date]
strftime(datetime, datetime_format) == datetime.ordinal

\* The options every datetime slicer of the incremental slicer is built from: the
\* default start is the first date, the end the day after the last date a record or
\* a state can carry, the step two days.
base_datetime_stream_slicer_options ==
    [start_datetime |-> [datetime |-> 1, datetime_format |-> "%Y-%m-%d"],
     end_datetime |-> [datetime |-> MaxDate + 1, datetime_format |-> "%Y-%m-%d"],
     step |-> 2,
     start_time_option |-> [field_name |-> "startDate"],
     end_time_option |-> [field_name |-> "endDate"],
     cursor_field |-> CursorField,
     stream_slice_field_start |-> "start_time",
     stream_slice_field_end |-> "end_time"]

\* The datetime slicer built from options: its start is the configured start date.
_create_datetime_stream_slicer(options) ==
    [start |-> parse_date(options.start_datetime.datetime),
     end |-> parse_date(options.end_datetime.datetime),
     step |-> options.step,
     cursor_field |-> options.cursor_field]

\* d.get(key, {}) on a mapping of mappings.
GetOrEmpty(d, key) == IF key \in DOMAIN d THEN d[key] ELSE EmptyDict

\* Windows of step days from first to last, the final one cut at last, each as the
\* slicer's slice fields.
RECURSIVE StepWindows(_, _, _)
StepWindows(first, last, step) ==
    IF first > last THEN <<>>
    ELSE <<[start_time |-> first,
            end_time |-> IF first + step - 1 < last THEN first + step - 1 ELSE last]>>
         \o StepWindows(first + step, last, step)

\* The datetime slicer's stream_slices: a fresh sequence of windows from the start the
\* slicer was built with up to its end.
datetime_stream_slices(datetime_stream_slicer, state) ==
    StepWindows(datetime_stream_slicer.start.ordinal, datetime_stream_slicer.end.ordinal,
                datetime_stream_slicer.step)

\* stream_state.get(businessName, {}).get(serviceName, {}).get(cursor field, None)
state_cursor_value(state, stream_slice) ==
    StoredCursor(state, stream_slice.businessName, stream_slice.serviceName)

\* The state handed to the pair's datetime slicer.
PairState(state, stream_slice) ==
    GetOrEmpty(GetOrEmpty(state, stream_slice.businessName), stream_slice.serviceName)

\* stream_slices that builds every pair's datetime slicer from the default options.
PairSlicerDefault(state, stream_slice) ==
    _create_datetime_stream_slicer(base_datetime_stream_slicer_options)

\* The datetime slicer stream_slices builds for one parent-logic slice.
PairSlicer(state, stream_slice) ==
    IF state_cursor_value(state, stream_slice) # None
    THEN LET start ==
                 strftime(parse_date(Val(state_cursor_value(state, stream_slice))),
                          base_datetime_stream_slicer_options.start_datetime.datetime_format)
         IN  _create_datetime_stream_slicer(
                 [base_datetime_stream_slicer_options EXCEPT !.start_datetime.datetime = start])
    ELSE _create_datetime_stream_slicer(base_datetime_stream_slicer_options)

\* {**stream_slice, **datetime_stream_slice} for every window of one pair.
MergedSlices(stream_slice, datetime_slices) ==
    [i \in 1..Len(datetime_slices) |-> DictUpdate(stream_slice, datetime_slices[i])]

\* for stream_slice in super().stream_slices(...): the windows of each pair in turn.
RECURSIVE PairWindows(_, _)
PairWindows(service_slices, state) ==
    IF service_slices = <<>> THEN <<>>
    ELSE MergedSlices(Head(service_slices),
                      datetime_stream_slices(PairSlicer(state, Head(service_slices)),
                                             PairState(state, Head(service_slices))))
         \o PairWindows(Tail(service_slices), state)

\* stream_slices of the incremental slicer, consumed to its end.
incremental_stream_slices(config, state) == PairWindows(stream_slices(config), state)

\* f"gte:{start_date};lte:{end_date}"
GteLte(start_date, end_date) == <<"gte:", start_date, ";lte:", end_date>>

\* if stream_slice: neither None nor an empty mapping
Truthy(stream_slice) == stream_slice # None /\ Val(stream_slice) # EmptyDict

\* RailzAiServiceSlicer.get_request_params
service_get_request_params(stream_slice) ==
    IF Truthy(stream_slice)
    THEN [businessName |-> Val(stream_slice).businessName,
          serviceName |-> Val(stream_slice).serviceName]
    ELSE EmptyDict

\* get_request_params that sends the window's end as its start and its start as its end.
incremental_get_request_params_swapped(stream_slice) ==
    IF Truthy(stream_slice)
    THEN ("businessName" :> Val(stream_slice).businessName)
         @@ ("serviceName" :> Val(stream_slice).serviceName)
         @@ (base_datetime_stream_slicer_options.cursor_field
                :> GteLte(Val(stream_slice).end_time, Val(stream_slice).start_time))
    ELSE EmptyDict

\* RailzAiIncrementalServiceSlicer.get_request_params
incremental_get_request_params(stream_slice) ==
    IF Truthy(stream_slice)
    THEN LET start_date ==
                 Val(stream_slice)[base_datetime_stream_slicer_options.stream_slice_field_start]
             end_date ==
                 Val(stream_slice)[base_datetime_stream_slicer_options.stream_slice_field_end]
         IN  ("businessName" :> Val(stream_slice).businessName)
             @@ ("serviceName" :> Val(stream_slice).serviceName)
             @@ (base_datetime_stream_slicer_options.cursor_field
                    :> GteLte(start_date, end_date))
    ELSE EmptyDict

\* RailzAiIncrementalServiceReportsSlicer.get_request_params
reports_get_request_params(stream_slice) ==
    IF Truthy(stream_slice)
    THEN LET start_date ==
                 Val(stream_slice)[base_datetime_stream_slicer_options.stream_slice_field_start]
             end_date ==
                 Val(stream_slice)[base_datetime_stream_slicer_options.stream_slice_field_end]
         IN  ("businessName" :> Val(stream_slice).businessName)
             @@ ("serviceName" :> Val(stream_slice).serviceName)
             @@ (base_datetime_stream_slicer_options.start_time_option.field_name :> start_date)
             @@ (base_datetime_stream_slicer_options.end_time_option.field_name :> end_date)
    ELSE EmptyDict

\* The three slicer classes, by the get_request_params each one runs.
SlicerClasses == {"service", "incremental", "reports"}
get_request_params(class, stream_slice) ==
    CASE class = "service" -> service_get_request_params(stream_slice)
      [] class = "incremental" -> incremental_get_request_params(stream_slice)
      [] class = "reports" -> reports_get_request_params(stream_slice)

\* The parent-logic slices stream_slices is given, as the parent stream that yields
\* them: one business record per pair, with that pair's connection active.
Pairs == BusinessNames \X ServiceNames
ParentOfPairs(pairs) ==
    Some(<< [i \in 1..Len(pairs) |->
                [kind |-> "RECORD", businessName |-> pairs[i][1],
                 connections |-> <<Connection(pairs[i][2], "active")>>]] >>)

\* The persisted states: a date under the cursor field for some of the pairs.
StatePairs == {<<"B1", "S1">>, <<"B1", "S2">>, <<"B2", "S1">>}
StateOf(dated) ==
    [b \in { p[1] : p \in DOMAIN dated } |->
        [s \in { p[2] : p \in { q \in DOMAIN dated : q[1] = b } } |->
            CursorField :> dated[<<b, s>>]]]
StreamStates == { StateOf(dated) : dated \in UNION { [P -> Dates] : P \in SUBSET StatePairs } }

NoParams == [called |-> FALSE, class |-> "", stream_slice |-> None, params |-> EmptyDict]

\* The windows side of a slicer that has not been asked for slices.
WindowConstructed(state) ==
    /\ stream_state = state
    /\ windows = <<>>
    /\ wpc = "input"
    /\ wpos = 0
    /\ lastParams = NoParams

WindowIdle == WindowConstructed(EmptyDict)

\* A sync starts: the slicer is constructed and given the parent and the persisted state.
WindowInit ==
    \E pairs \in SeqsUpTo(Pairs, MaxPairs), state \in StreamStates :
        /\ SlicerConfigured(ParentOfPairs(pairs))
        /\ WindowConstructed(state)

\* stream_slices(sync_mode, stream_state), consumed to its end.
IncrementalStreamSlices ==
    /\ wpc = "input"
    /\ windows' = incremental_stream_slices(parent_stream_config, stream_state)
    /\ wpc' = "sliced"
    /\ UNCHANGED <<stream_state, wpos, lastParams>>
    /\ UNCHANGED incrVars
    /\ WindowFrame

\* The stream slices a slicer of the class is asked request parameters for.
ClassSlices(class) ==
    IF class = "service" THEN stream_slices(parent_stream_config) ELSE windows

\* get_request_params(stream_slice=...) of a slicer of one of the three classes.
RequestParams(class, stream_slice) ==
    /\ wpc = "sliced"
    /\ lastParams' = [called |-> TRUE, class |-> class, stream_slice |-> stream_slice,
                      params |-> get_request_params(class, stream_slice)]
    /\ UNCHANGED <<stream_state, windows, wpc, wpos>>
    /\ UNCHANGED incrVars
    /\ WindowFrame

\* The sync reads the next slice and calls update_cursor with its last record, or
\* without one, before the state is checkpointed.
ProcessWindow(last_record) ==
    /\ wpc = "sliced"
    /\ wpos < Len(windows)
    /\ wpos' = wpos + 1
    /\ _icursor' = incremental_update_cursor(_icursor, windows[wpos + 1], last_record)
    /\ lastUpdate' =
         [kind |-> IF last_record = None THEN "absent" ELSE "record",
          stream_slice |-> windows[wpos + 1],
          stored |-> StoredCursor(_icursor, windows[wpos + 1].businessName,
                                  windows[wpos + 1].serviceName),
          last_record |-> last_record]
    /\ lastParams' = NoParams
    /\ UNCHANGED <<stream_state, windows, wpc>>
    /\ WindowFrame

SomeRequestParams ==
    \E class \in SlicerClasses :
        \E stream_slice \in {None} \cup { Some(ClassSlices(class)[i]) :
                                            i \in 1..Len(ClassSlices(class)) } :
            RequestParams(class, stream_slice)

WindowNext == IncrementalStreamSlices \/ SomeRequestParams

ResumeNext ==
    \/ IncrementalStreamSlices
    \/ \E last_record \in {None} \cup {Some(r) : r \in DatedRecords} : ProcessWindow(last_record)

(***************************************************************************)
(* RailzNestedExtractor                                                    *)
(***************************************************************************)

\* The configurations: the path to the records, the fields to propagate, the prefix.
NestedFieldPaths == {<<>>, <<"items">>, <<"items", "sub">>}
PropagateFields == {<<>>, <<"owner">>}
PrefixKeys == {None, Some("data")}

\* The JSON objects of a response: the body lists objects under "items", each of these
\* lists objects under "sub", and every object may carry an "owner".
Owners == {None, Some("X"), Some("Y")}
Ids == {1, 2}
OwnerPart(owner) == IF owner = None THEN EmptyDict ELSE "owner" :> Val(owner)
Body(owner) == OwnerPart(owner) @@ ("items" :> <<>>)
Item(id, owner) == ("id" :> id) @@ OwnerPart(owner) @@ ("sub" :> <<>>)
Leaf(id, owner) == ("id" :> id) @@ OwnerPart(owner)
Items == { Item(id, owner) : id \in Ids, owner \in Owners }
Leaves == { Leaf(id, owner) : id \in Ids, owner \in Owners }

RECURSIVE SubCount(_)
SubCount(items) == IF items = <<>> THEN 0 ELSE Len(Head(items)["sub"]) + SubCount(Tail(items))
NodeCount(json) == Len(json["items"]) + SubCount(json["items"])

\* __post_init__: what it raises. An empty nested_fields builds a ValueError and drops it.
ExtractorPostInit(nested_fields) == None

ExtractorConfigured(nested_fields, propagate_fields, prefix_key) ==
    extractor = [nested_fields |-> nested_fields, propagate_fields |-> propagate_fields,
                 prefix_key |-> prefix_key, raised |-> ExtractorPostInit(nested_fields)]

ExtractIdle ==
    /\ ExtractorConfigured(<<"items">>, <<>>, None)
    /\ response_json = Body(None)
    /\ extracted = None
    /\ xpc = "input"

ExtractInit ==
    /\ \E nested_fields \in NestedFieldPaths, propagate_fields \in PropagateFields,
          prefix_key \in PrefixKeys :
           ExtractorConfigured(nested_fields, propagate_fields, prefix_key)
    /\ \E owner \in Owners : response_json = Body(owner)
    /\ extracted = None
    /\ xpc = "input"

\* The response body gets one more object under "items".
AddItem(item) ==
    /\ xpc = "input"
    /\ NodeCount(response_json) < MaxNodes
    /\ response_json' = [response_json EXCEPT !["items"] = Append(@, item)]
    /\ UNCHANGED <<extractor, extracted, xpc>>
    /\ ExtractFrame

\* The last object under "items" gets one more object under "sub".
AddLeaf(leaf) ==
    /\ xpc = "input"
    /\ NodeCount(response_json) < MaxNodes
    /\ response_json["items"] # <<>>
    /\ response_json' =
         [response_json EXCEPT !["items"][Len(response_json["items"])]["sub"] = Append(@, leaf)]
    /\ UNCHANGED <<extractor, extracted, xpc>>
    /\ ExtractFrame

\* for propagate_field in propagate_fields: if propagate_field in obj:
\*     record[propagate_field] = obj[propagate_field]
Propagated(obj, record, propagate_fields) ==
    LET copied == { propagate_fields[i] : i \in 1..Len(propagate_fields) } \cap DOMAIN obj
    IN  [k \in DOMAIN record \cup copied |-> IF k \in copied THEN obj[k] ELSE record[k]]

\* _extract_records, consumed to its end; nested_fields is not empty. The records of
\* the list under the first field, each with the fields propagated from obj, are
\* yielded, or walked in turn with the rest of the path.
RECURSIVE _extract_records(_, _, _)
RECURSIVE WalkRecords(_, _, _)
WalkRecords(records, nested_fields, propagate_fields) ==
    IF records = <<>> THEN <<>>
    ELSE _extract_records(Head(records), nested_fields, propagate_fields)
         \o WalkRecords(Tail(records), nested_fields, propagate_fields)
_extract_records(obj, nested_fields, propagate_fields) ==
    LET field == Head(nested_fields)
        rest == Tail(nested_fields)
        records == [i \in 1..Len(obj[field]) |->
                       Propagated(obj, obj[field][i], propagate_fields)]
    IN  IF rest # <<>> THEN WalkRecords(records, rest, propagate_fields) ELSE records

\* extract_records: nested_fields.pop(0) raises IndexError on an empty path.
extract_records(json) ==
    IF extractor.nested_fields = <<>>
    THEN [raised |-> Some("IndexError"), records |-> <<>>]
    ELSE LET records == _extract_records(json, extractor.nested_fields,
                                         extractor.propagate_fields)
         IN  [raised |-> None,
              records |-> [i \in 1..Len(records) |->
                              IF extractor.prefix_key # None
                              THEN Val(extractor.prefix_key) :> records[i]
                              ELSE records[i]]]

ExtractRecords ==
    /\ xpc = "input"
    /\ extractor.raised = None
    /\ extracted' = Some(extract_records(response_json))
    /\ xpc' = "done"
    /\ UNCHANGED <<extractor, response_json>>
    /\ ExtractFrame

ExtractNext ==
    \/ \E item \in Items : AddItem(item)
    \/ \E leaf \in Leaves : AddLeaf(leaf)
    \/ ExtractRecords

(***************************************************************************)
(* RailzAiReportsSelector, RailzAiIncrementalReportsSelector               *)
(***************************************************************************)

\* A list of field names as the set `in` tests membership of.
FieldSet(fields) == { fields[i] : i \in 1..Len(fields) }

SelectorClasses == {"RailzAiReportsSelector", "RailzAiIncrementalReportsSelector"}
_default_meta_fields(class) ==
    IF class = "RailzAiReportsSelector" THEN <<"reportId">>
    ELSE <<"reportId", "startDate", "endDate">>

\* meta_fields after __post_init__: None or a list.
MetaFieldLists == {None, Some(<<>>), Some(<<"startDate">>), Some(<<"reportId", "extra">>)}

\* record["data"] is one object or a list of objects; isinstance(..., list) tells
\* which, and the field for the other shape is left at a fixed value.
DataObjects == {"a" :> "1", ("a" :> "2") @@ ("reportId" :> "d")}
DataValues ==
    { [list |-> FALSE, object |-> object, objects |-> <<>>] : object \in DataObjects }
    \cup { [list |-> TRUE, object |-> "a" :> "1", objects |-> objects] :
              objects \in SeqsUpTo(DataObjects, 2) }
MetaValues ==
    { EmptyDict,
      ("reportId" :> "r1") @@ ("extra" :> "z"),
      ("reportId" :> "r1") @@ ("startDate" :> "d1") @@ ("endDate" :> "d2") }
RawRecords == { [data |-> data, meta |-> meta] : data \in DataValues, meta \in MetaValues }

SelectorConfigured(class, meta_fields) ==
    /\ selector = [class |-> class, meta_fields |-> meta_fields]
    /\ selected = None

SelectIdle ==
    /\ SelectorConfigured("RailzAiReportsSelector", None)
    /\ raw_records = <<>>

SelectInit ==
    /\ \E class \in SelectorClasses, meta_fields \in MetaFieldLists :
           SelectorConfigured(class, meta_fields)
    /\ raw_records \in SeqsUpTo(RawRecords, MaxRaw)

\* self.meta_fields or self._default_meta_fields: None and the empty list are falsy.
EffectiveMetaFields(class, meta_fields) ==
    IF meta_fields # None /\ Val(meta_fields) # <<>> THEN Val(meta_fields)
    ELSE _default_meta_fields(class)

\* {**data_element, **{the meta entries whose key is in meta_fields}}
Flattened(data_element, meta, meta_fields) ==
    DictUpdate(data_element, [k \in DOMAIN meta \cap FieldSet(meta_fields) |-> meta[k]])

\* The rows of one {data, meta} record.
RecordRows(class, meta_fields, record) ==
    LET data_set == IF record.data.list THEN record.data.objects ELSE <<record.data.object>>
    IN  [i \in 1..Len(data_set) |->
            Flattened(data_set[i], record.meta, EffectiveMetaFields(class, meta_fields))]

\* select_records over the records of the base selector.
RECURSIVE select_records(_, _, _)
select_records(class, meta_fields, records) ==
    IF records = <<>> THEN <<>>
    ELSE RecordRows(class, meta_fields, Head(records))
         \o select_records(class, meta_fields, Tail(records))

SelectRecords ==
    /\ selected = None
    /\ selected' = Some(select_records(selector.class, selector.meta_fields, raw_records))
    /\ UNCHANGED <<selector, raw_records>>
    /\ SelectFrame

SelectNext == SelectRecords

(***************************************************************************)
(* A sync: the slices read one after the other through the retriever, each *)
(* request authenticated by the token property                             *)
(***************************************************************************)

NoRecords == [s \in ServiceNames |-> 0]

\* What the source does with the request of a read in a sync whose reads succeed or
\* fail with ReadException: it holds no record or one, and yields it before it fails.
RecoverableReads ==
    { [records |-> r, outcome |-> o] : r \in SeqsUpTo({"r1"}, 1), o \in {"ok", "ReadException"} }

\* What the token endpoint answers in a sync: a token, or an error status.
SyncResponses == {Response(TRUE, TokenKey :> "tokA"), Response(FALSE, "error" :> "denied")}

\* The underlying read when the token property raised: the exception of check_token
\* leaves super().read_records before any record.
AuthError == [records |-> <<>>, outcome |-> "AuthError"]

RunConstructed(n) ==
    /\ todo = n
    /\ held = NoRecords
    /\ emitted = NoRecords

RunIdle == RunConstructed(0)

\* A sync of up to MaxSlices slices starts with a fresh authenticator and retriever.
SyncInit ==
    /\ TokenPostInit(DefaultLifetime)
    /\ RetrieverInit
    /\ \E n \in 0..MaxSlices : RunConstructed(n)

\* The sync reads its next slice. A slice of a failed service sends no request;
\* otherwise the request takes its header from the token property, and the
\* exception of a failed token fetch leaves read_records and ends the sync.
SyncRead(stream_slice, underlying, response) ==
    LET skipped == stream_slice.serviceName \in _failed_services
        checked == check_token(response)
        answered == IF ~skipped /\ checked.raised THEN AuthError ELSE underlying
        read == read_records(stream_slice, answered)
    IN  /\ sync.status = "running"
        /\ sync.reads < todo
        /\ _token' = IF skipped THEN _token ELSE checked._token
        /\ _timestamp' = IF skipped THEN _timestamp ELSE checked._timestamp
        /\ lastAuth' =
             IF skipped THEN NoAuth
             ELSE [called |-> TRUE, fetched |-> checked.fetched, raised |-> checked.raised,
                   response |-> IF checked.fetched THEN Some(response) ELSE None,
                   prevToken |-> _token, prevTimestamp |-> _timestamp,
                   header |-> IF checked.raised THEN None
                              ELSE Some(<<"Bearer", Val(checked._token)>>)]
        /\ _failed_services' = read._failed_services
        /\ readErrors' =
             IF read.delegated /\ answered.outcome = "ReadException"
             THEN readErrors \cup {stream_slice.serviceName} ELSE readErrors
        /\ errorSlices' =
             IF read.delegated /\ answered.outcome = "ReadException"
             THEN errorSlices \cup {stream_slice} ELSE errorSlices
        /\ sync' = [sync EXCEPT !.reads = @ + 1,
                                !.status = IF read.raised = None THEN "running" ELSE "aborted"]
        /\ lastRead' =
             [called |-> TRUE, stream_slice |-> stream_slice,
              priorError |-> stream_slice.serviceName \in readErrors,
              delegated |-> read.delegated, records |-> read.records,
              raised |-> read.raised, underlying |-> answered]
        /\ held' = [held EXCEPT ![stream_slice.serviceName] = @ + Len(underlying.records)]
        /\ emitted' = [emitted EXCEPT ![stream_slice.serviceName] = @ + Len(read.records)]
        /\ UNCHANGED <<lifetime, now, todo>>
        /\ SyncFrame

\* No slice is left: the sync completes.
SyncFinish ==
    /\ sync.status = "running"
    /\ sync.reads = todo
    /\ sync' = [sync EXCEPT !.status = "completed"]
    /\ UNCHANGED <<tokenVars, _failed_services, readErrors, errorSlices, lastRead, runVars>>
    /\ SyncFrame

\* The step the sync's loop takes next.
SyncStep ==
    \/ \E stream_slice \in ServiceSlices, underlying \in RecoverableReads,
          response \in SyncResponses : SyncRead(stream_slice, underlying, response)
    \/ SyncFinish

SyncNext == SyncStep \/ Tick(SecondsPerDay)

(***************************************************************************)
(* Specifications                                                          *)
(***************************************************************************)

\* The components a specification does not run stay as constructed.
TokenIdle == TokenPostInit(DefaultLifetime)
SliceIdle == SlicerConfigured(None)

\* The token authenticator under each of its configured lifetimes.
InitToken ==
    TokenInit /\ RetrieverInit /\ SliceIdle /\ CursorInit /\ IncrInit /\ WindowIdle
    /\ ExtractIdle /\ SelectIdle /\ RunIdle
SpecToken == InitToken /\ [][TokenNext]_vars

\* The retriever over the slices of its syncs.
InitRetriever ==
    TokenIdle /\ RetrieverInit /\ SliceIdle /\ CursorInit /\ IncrInit /\ WindowIdle
    /\ ExtractIdle /\ SelectIdle /\ RunIdle
SpecRetriever == InitRetriever /\ [][RetrieverNext]_vars

\* stream_slices of the service slicer over the parent streams within the bounds.
InitSlices ==
    TokenIdle /\ RetrieverInit /\ SliceInit /\ CursorInit /\ IncrInit /\ WindowIdle
    /\ ExtractIdle /\ SelectIdle /\ RunIdle
SpecSlices == InitSlices /\ [][SliceNext]_vars

\* The cursor of the service slicer.
InitCursor ==
    TokenIdle /\ RetrieverInit /\ SliceIdle /\ CursorInit /\ IncrInit /\ WindowIdle
    /\ ExtractIdle /\ SelectIdle /\ RunIdle
SpecCursor == InitCursor /\ [][CursorNext]_vars

\* The cursor of the incremental service slicer.
InitIncr ==
    TokenIdle /\ RetrieverInit /\ SliceIdle /\ CursorInit /\ IncrInit /\ WindowIdle
    /\ ExtractIdle /\ SelectIdle /\ RunIdle
SpecIncr == InitIncr /\ [][IncrNext]_vars

\* stream_slices and get_request_params of the incremental slicers, over the parent
\* slices and the persisted states within the bounds.
InitWindows ==
    TokenIdle /\ RetrieverInit /\ CursorInit /\ IncrInit /\ WindowInit
    /\ ExtractIdle /\ SelectIdle /\ RunIdle
SpecWindows == InitWindows /\ [][WindowNext]_vars

\* A sync of the incremental slicer resumed from a persisted state.
InitResume ==
    TokenIdle /\ RetrieverInit /\ CursorInit /\ IncrInit /\ WindowInit
    /\ ExtractIdle /\ SelectIdle /\ RunIdle
SpecResume == InitResume /\ [][ResumeNext]_vars

\* The nested extractor over its configurations and the responses within the bounds.
InitExtract ==
    TokenIdle /\ RetrieverInit /\ SliceIdle /\ CursorInit /\ IncrInit /\ WindowIdle
    /\ ExtractInit /\ SelectIdle /\ RunIdle
SpecExtract == InitExtract /\ [][ExtractNext]_vars

\* The report selectors over their configurations and the records within the bounds.
InitSelect ==
    TokenIdle /\ RetrieverInit /\ SliceIdle /\ CursorInit /\ IncrInit /\ WindowIdle
    /\ ExtractIdle /\ SelectInit /\ RunIdle
SpecSelect == InitSelect /\ [][SelectNext]_vars

\* A sync over its slices. Its loop is one thread that reads the next slice as soon as
\* the previous read returned, so a step of the sync that stays possible is taken.
InitSync ==
    SyncInit /\ SliceIdle /\ CursorInit /\ IncrInit /\ WindowIdle
    /\ ExtractIdle /\ SelectIdle
SpecSync == InitSync /\ [][SyncNext]_vars
FairSpecSync == SpecSync /\ WF_vars(SyncStep)

(***************************************************************************)
(* Properties of the incremental cursor (SpecIncr)                         *)
(***************************************************************************)

\* The pair the last update_cursor call was for, and the value of its record.
UpdatedBusiness == lastUpdate.stream_slice.businessName
UpdatedService == lastUpdate.stream_slice.serviceName
RecordValue == Val(lastUpdate.last_record)[CursorField]

Max(a, b) == IF a < b THEN b ELSE a

\* After update_cursor with a record of value R for a pair that stored V, the pair
\* stores max(V, R), and R if it stored nothing.
C1_MergeIsMax ==
    lastUpdate.kind = "record" =>
        StoredCursor(_icursor, UpdatedBusiness, UpdatedService)
            = Some(IF lastUpdate.stored = None THEN RecordValue
                   ELSE Max(Val(lastUpdate.stored), RecordValue))

\* No update_cursor call, with or without a record, removes or lowers the stored
\* value of a pair.
C1_NeverDecreases ==
    \A b \in BusinessNames, s \in ServiceNames :
        StoredCursor(_icursor, b, s) # None =>
            /\ StoredCursor(_icursor', b, s) # None
            /\ Val(StoredCursor(_icursor', b, s)) >= Val(StoredCursor(_icursor, b, s))

\* C1: update_cursor with a record is monotonic per (businessName, serviceName): the
\* stored value afterwards is max(V, R) (R when nothing was stored), and over any
\* sequence of update_cursor calls the stored value of a pair never decreases.
C1_UpdateCursorMonotonic == []C1_MergeIsMax /\ [][C1_NeverDecreases]_vars

\* C1's case: a record older than the stored value arrived and the value was kept.
C1_Witness ==
    /\ lastUpdate.kind = "record"
    /\ lastUpdate.stored # None
    /\ RecordValue < Val(lastUpdate.stored)
    /\ StoredCursor(_icursor, UpdatedBusiness, UpdatedService) = lastUpdate.stored

\* C10: after any sequence of update_cursor calls, with or without a record, the
\* state is a two-level mapping businessName -> serviceName -> {cursor field: value},
\* with no other key at the top level.
C10_TwoLevelMapping ==
    LET state == get_stream_state(_icursor)
    IN  /\ DOMAIN state \subseteq BusinessNames
        /\ \A b \in DOMAIN state :
               /\ DOMAIN state[b] \subseteq ServiceNames
               /\ \A s \in DOMAIN state[b] :
                      /\ DOMAIN state[b][s] = {CursorField}
                      /\ state[b][s][CursorField] \in Dates

\* The stored cursor of every pair other than the one update_cursor was called for is
\* as it was before the call.
C20_OtherPairsKept ==
    \A b \in BusinessNames, s \in ServiceNames :
        <<b, s>> # <<lastUpdate'.stream_slice.businessName,
                    lastUpdate'.stream_slice.serviceName>>
            => StoredCursor(_icursor', b, s) = StoredCursor(_icursor, b, s)

\* C20: update_cursor for a slice of the pair (B, S), with or without a record, leaves
\* the stored cursor of every other pair unchanged: the other services of B, and S
\* under another business.
C20_CursorIndependence == [][C20_OtherPairsKept]_vars

\* C20's case: B1 has a value stored for both of its services and B2 for S1, and the
\* last update_cursor call stored a later value for (B1, S1) only.
C20_Witness ==
    /\ lastUpdate.kind = "record"
    /\ UpdatedBusiness = "B1" /\ UpdatedService = "S1"
    /\ lastUpdate.stored = Some(1)
    /\ StoredCursor(_icursor, "B1", "S1") = Some(MaxDate)
    /\ StoredCursor(_icursor, "B1", "S2") = Some(1)
    /\ StoredCursor(_icursor, "B2", "S1") = Some(1)

\* C11: update_cursor(stream_slice, no record) is the bootstrap step: afterwards the
\* state holds, for the slice's (businessName, serviceName) pair, the slice's own
\* window end under the cursor field.
C11_BootstrapToWindowEnd ==
    lastUpdate.kind = "absent" =>
        StoredCursor(get_stream_state(_icursor), UpdatedBusiness, UpdatedService)
            = Some(lastUpdate.stream_slice.end_time)

(***************************************************************************)
(* Properties of the service slicer (SpecSlices, SpecCursor)               *)
(***************************************************************************)

\* The parent stream's slices; none when no parent is configured.
Parent == IF parent_stream_config = None THEN <<>> ELSE Val(parent_stream_config)

\* The places <<parent slice, message, connection>> of the parent stream.
Places ==
    { p \in (1..Len(Parent)) \X (1..MessageCount(Parent)) \X (1..ConnectionCount(Parent)) :
        /\ p[2] <= Len(Parent[p[1]])
        /\ p[3] <= Len(Parent[p[1]][p[2]].connections) }

ConnectionAt(p) == Parent[p[1]][p[2]].connections[p[3]]

\* The places of the connections whose status makes them a slice.
EligiblePlaces ==
    { p \in Places : ConnectionAt(p).status \in {"active", "disconnected", "expired"} }

\* Parent-slice order, then parent-record order, then connection order.
Before(p, q) ==
    \/ p[1] < q[1]
    \/ p[1] = q[1] /\ p[2] < q[2]
    \/ p[1] = q[1] /\ p[2] = q[2] /\ p[3] < q[3]

\* The position of an eligible place among the eligible places.
Rank(p) == 1 + Cardinality({ q \in EligiblePlaces : Before(q, p) })

\* C8: stream_slices yields one slice {businessName, serviceName} for each connection
\* of each parent record whose status is active, disconnected or expired, and none
\* for another status, in parent-slice, then parent-record, then connection order;
\* with no parent configured it yields nothing.
C8_OneSlicePerEligibleConnection ==
    pc = "done" =>
        /\ Len(slices) = Cardinality(EligiblePlaces)
        /\ \A p \in EligiblePlaces :
               slices[Rank(p)] =
                   [businessName |-> Parent[p[1]][p[2]].businessName,
                    serviceName |-> ConnectionAt(p).serviceName]

\* C8's case: a parent record with an active and, after it, a pending connection
\* gave the one slice of the active connection.
C8_Witness ==
    /\ pc = "done"
    /\ Len(slices) = 1
    /\ \E p \in EligiblePlaces, q \in Places \ EligiblePlaces :
           /\ p[1] = q[1] /\ p[2] = q[2] /\ p[3] < q[3]
           /\ ConnectionAt(p).status = "active"
           /\ ConnectionAt(q).status = "pending"
           /\ slices[1].serviceName = ConnectionAt(p).serviceName
           /\ slices[1].serviceName # ConnectionAt(q).serviceName

\* The services of the pairs update_cursor was called for with a record.
ProcessedServices(b) == { s \in ServiceNames : <<b, s>> \in processed }

\* C9: after update_cursor calls with a record, get_stream_state maps each
\* businessName to the set of the serviceNames of the slices processed for it,
\* whatever the order of the calls and however often a pair was repeated, and an
\* untouched slicer has the empty mapping.
C9_CursorIsSetOfServices ==
    LET state == get_stream_state(_cursor)
    IN  /\ \A b \in BusinessNames :
               IF ProcessedServices(b) = {} THEN b \notin DOMAIN state
               ELSE b \in DOMAIN state /\ state[b] = ProcessedServices(b)
        /\ cursorCalls.withoutRecord = 0 => DOMAIN state \subseteq BusinessNames

\* C9's case: B1's two services were processed, one of them twice.
C9_Witness ==
    /\ cursorCalls = [withRecord |-> 3, withoutRecord |-> 0]
    /\ processed = {<<"B1", "S1">>, <<"B1", "S2">>}
    /\ get_stream_state(_cursor) = [b \in {"B1"} |-> {"S1", "S2"}]

(***************************************************************************)
(* Properties of the retriever (SpecRetriever)                             *)
(***************************************************************************)

ReadService == lastRead.stream_slice.serviceName

\* C2: once a read for a slice of service S raised ReadException, every later slice
\* of S in the sync yields no record, without a call of the underlying read and
\* without an error; the slices of the other services are delegated to the
\* underlying read and yield its records.
C2_FailedServiceSkipped ==
    lastRead.called =>
        IF lastRead.priorError
        THEN /\ ~lastRead.delegated
             /\ lastRead.records = <<>>
             /\ lastRead.raised = None
        ELSE /\ lastRead.delegated
             /\ lastRead.records = lastRead.underlying.records

\* C2's case: a slice of a failed service is skipped although its read had records,
\* while a service without a failure remains.
C2_Witness ==
    /\ lastRead.called
    /\ lastRead.priorError
    /\ lastRead.underlying.records # <<>>
    /\ lastRead.underlying.outcome = "ok"
    /\ lastRead.records = <<>>
    /\ readErrors # ServiceNames

\* A step of a sync keeps the members of _failed_services; a new sync starts empty.
C3_KeptWithinSync ==
    IF sync'.id = sync.id THEN _failed_services \subseteq _failed_services'
    ELSE _failed_services' = {}

\* C3: _failed_services is empty when a retriever is constructed, no operation of a
\* sync removes a service from it, and its members are services whose read raised
\* ReadException in that same sync.
C3_FailedSetMonotonicPerSync ==
    /\ _failed_services = {}
    /\ [](_failed_services \subseteq readErrors)
    /\ [][C3_KeptWithinSync]_vars

\* C3's case: a service that failed in an earlier sync is read again in the next.
C3_Witness ==
    /\ sync.id > 1
    /\ lastRead.called
    /\ ReadService \in sync.earlier
    /\ lastRead.delegated
    /\ ReadService \notin _failed_services

\* The underlying read of the last slice was called and raised this error.
UnderlyingRaised(error) ==
    lastRead.called /\ lastRead.delegated /\ lastRead.underlying.outcome = error

\* C4, as claimed: when the underlying read raises ReadException, the service is
\* added to _failed_services, the result for the slice holds no record, the error
\* does not reach the caller, and the sync goes on.
C4_NoRecordOnReadException ==
    UnderlyingRaised("ReadException") =>
        /\ ReadService \in _failed_services
        /\ lastRead.records = <<>>
        /\ lastRead.raised = None
        /\ sync.status = "running"

\* C4, amended: when the underlying read raises ReadException, the service is added
\* to _failed_services, the result for the slice holds the records the underlying
\* read yielded before it raised and no other, the error does not reach the
\* caller, and the sync goes on.
C4_ReadExceptionIsolated ==
    UnderlyingRaised("ReadException") =>
        /\ ReadService \in _failed_services
        /\ lastRead.records = lastRead.underlying.records
        /\ lastRead.raised = None
        /\ sync.status = "running"

\* C4's case: the underlying read raised ReadException after it yielded a record.
C4_Witness ==
    /\ UnderlyingRaised("ReadException")
    /\ lastRead.underlying.records # <<>>
    /\ ReadService \in _failed_services

\* C5: when the underlying read raises another error, the error reaches the caller
\* unchanged, the sync ends, and the service is not added to _failed_services.
C5_OtherErrorPropagates ==
    UnderlyingRaised("OtherError") =>
        /\ lastRead.raised = Some("OtherError")
        /\ sync.status = "aborted"
        /\ ReadService \notin _failed_services

\* C5's case: a read raised another error while another service had failed.
C5_Witness ==
    /\ UnderlyingRaised("OtherError")
    /\ sync.status = "aborted"
    /\ _failed_services # {}

\* The businesses other than the last slice's whose read of the last slice's service
\* raised ReadException in this sync.
OtherFailedBusinesses ==
    { b \in BusinessNames \ {lastRead.stream_slice.businessName} :
          ServiceSlice(b, ReadService) \in errorSlices }

\* C21: _failed_services holds service names, not (businessName, serviceName)
\* pairs: after a read of a slice of (B1, S) raised ReadException, a later slice of
\* the sync with service S is skipped, with no record and no call of the underlying
\* read, also when it is of another business B2 of which no read of S has failed.
C21_FailureKeyedByServiceAlone ==
    /\ _failed_services \subseteq ServiceNames
    /\ _failed_services = { stream_slice.serviceName : stream_slice \in errorSlices }
    /\ (lastRead.called /\ OtherFailedBusinesses # {} /\ lastRead.stream_slice \notin errorSlices) =>
           /\ ~lastRead.delegated
           /\ lastRead.records = <<>>
           /\ lastRead.raised = None

\* C21's case: S1 failed for B1 only, and the slice (B2, S1) is skipped although
\* its read would have yielded a record without an error.
C21_Witness ==
    /\ lastRead.called
    /\ lastRead.stream_slice = ServiceSlice("B2", "S1")
    /\ errorSlices = {ServiceSlice("B1", "S1")}
    /\ lastRead.underlying.records # <<>>
    /\ lastRead.underlying.outcome = "ok"
    /\ ~lastRead.delegated
    /\ lastRead.records = <<>>

(***************************************************************************)
(* Properties of the token authenticator (SpecToken)                       *)
(***************************************************************************)

\* The length of the configured lifetime: the whole ISO-8601 duration, in seconds.
LifetimeLength == SumSeconds(lifetime)

\* A token was cached before the last call and was younger than the lifetime.
WasFresh ==
    /\ lastAuth.prevToken # None
    /\ now - Val(lastAuth.prevTimestamp) < LifetimeLength

\* C6: for every configured lifetime L, the length of the ISO-8601 duration, a call
\* with a token cached and now - obtainedAt < L issues no fetch, and a call with no
\* token cached or now - obtainedAt >= L issues one.
C6_FetchIffLifetimeElapsed ==
    lastAuth.called => (lastAuth.fetched <=> ~WasFresh)

\* C7: if the fetch returns an error status or a body without the token key, the
\* call fails and the cached token and timestamp are as before the call; a
\* successful fetch, and nothing else, replaces them with the new token and the
\* time read at the start of the call.
C7_CacheReplacedOnlyOnSuccess ==
    lastAuth.called =>
        LET unchanged ==
                _token = lastAuth.prevToken /\ _timestamp = lastAuth.prevTimestamp
        IN  IF ~lastAuth.fetched THEN unchanged /\ ~lastAuth.raised
            ELSE LET response == Val(lastAuth.response)
                 IN  IF ~response.ok \/ "access_token" \notin DOMAIN response.json
                     THEN lastAuth.raised /\ lastAuth.header = None /\ unchanged
                     ELSE /\ ~lastAuth.raised
                          /\ _token = Some(response.json["access_token"])
                          /\ _timestamp = Some(now)
                          /\ lastAuth.header = Some(<<"Bearer", response.json["access_token"]>>)

\* C7's case: the token expired, the fetch failed, and the old token is still cached.
C7_Witness ==
    /\ lastAuth.called
    /\ lastAuth.raised
    /\ lastAuth.prevToken # None
    /\ _token = lastAuth.prevToken
    /\ _timestamp # Some(now)

\* C18: with a missing or empty lifetime the lifetime is zero: every evaluation of the
\* token property asks the token endpoint, and the header it returns carries the
\* token of that answer, never the cached one.
C18_EmptyLifetimeAlwaysFetches ==
    (lifetime = EmptyDuration /\ lastAuth.called) =>
        /\ lastAuth.fetched
        /\ ~lastAuth.raised =>
               lastAuth.header = Some(<<"Bearer", Val(lastAuth.response).json[TokenKey]>>)

\* C18's case: a second call at the very instant a token was cached, which fetched
\* another token.
C18_Witness ==
    /\ lifetime = EmptyDuration
    /\ lastAuth.called /\ lastAuth.fetched /\ ~lastAuth.raised
    /\ lastAuth.prevToken # None
    /\ lastAuth.prevTimestamp = Some(now)
    /\ _token # lastAuth.prevToken

(***************************************************************************)
(* Properties of the incremental slicer's slices (SpecWindows)             *)
(***************************************************************************)

\* The parent-logic slices, and the first day and the number of windows the i-th of
\* them is due: from its own persisted value when it has one, from the default
\* start otherwise, up to the configured end.
PairSlices == stream_slices(parent_stream_config)
FirstDay(i) ==
    LET stored == StoredCursor(stream_state, PairSlices[i].businessName,
                               PairSlices[i].serviceName)
    IN  IF stored # None THEN Val(stored)
        ELSE base_datetime_stream_slicer_options.start_datetime.datetime
LastDay == base_datetime_stream_slicer_options.end_datetime.datetime
Step == base_datetime_stream_slicer_options.step
WindowCount(i) == (LastDay - FirstDay(i) + Step) \div Step

\* How many windows come before those of the i-th parent-logic slice.
RECURSIVE WindowsBefore(_)
WindowsBefore(i) == IF i = 1 THEN 0 ELSE WindowsBefore(i - 1) + WindowCount(i - 1)

\* The j-th window of the i-th parent-logic slice.
WindowStart(i, j) == FirstDay(i) + (j - 1) * Step
WindowEnd(i, j) ==
    IF WindowStart(i, j) + Step - 1 < LastDay THEN WindowStart(i, j) + Step - 1 ELSE LastDay

\* C12: stream_slices yields, for each parent-logic slice in order, all windows of its
\* pair before any window of the next pair, each slice being the pair's keys merged
\* with the window's start and end; a pair's windows start at the value persisted for
\* that pair when there is one and at the default start otherwise, whatever is
\* persisted for the other pairs.
C12_WindowsPerPairInOrder ==
    wpc = "sliced" =>
        /\ Len(windows) = WindowsBefore(Len(PairSlices) + 1)
        /\ \A i \in 1..Len(PairSlices) :
               \A j \in 1..WindowCount(i) :
                   windows[WindowsBefore(i) + j]
                       = WindowSlice(PairSlices[i].businessName, PairSlices[i].serviceName,
                                     WindowStart(i, j), WindowEnd(i, j))

\* C12's case: the first pair has nothing persisted and gets the windows from the
\* default start, the second pair resumes from its own later persisted value.
C12_Witness ==
    /\ wpc = "sliced"
    /\ Len(PairSlices) = 2
    /\ PairSlices[1] # PairSlices[2]
    /\ StoredCursor(stream_state, PairSlices[1].businessName, PairSlices[1].serviceName) = None
    /\ StoredCursor(stream_state, PairSlices[2].businessName, PairSlices[2].serviceName)
           = Some(MaxDate)
    /\ WindowCount(1) > 1
    /\ Len(windows) = WindowCount(1) + 1
    /\ windows[Len(windows)].start_time = MaxDate

(***************************************************************************)
(* Properties of the nested extractor (SpecExtract)                        *)
(***************************************************************************)

\* The fields of propagate_fields that obj itself carries, over those inherited from
\* the objects above it: the nearer object's value replaces the farther one's.
Inherited(inherited, obj, propagate_fields) ==
    LET carried == { propagate_fields[i] : i \in 1..Len(propagate_fields) } \cap DOMAIN obj
    IN  DictUpdate(inherited, [k \in carried |-> obj[k]])

\* The records at the end of the path in document order, each with every propagated
\* field some object above it carries, at the value of the closest such object.
RECURSIVE ClosestAncestorRecords(_, _, _, _)
ClosestAncestorRecords(objs, nested_fields, inherited, propagate_fields) ==
    IF objs = <<>> THEN <<>>
    ELSE LET obj == Head(objs)
             below == Inherited(inherited, obj, propagate_fields)
             children == obj[Head(nested_fields)]
         IN  (IF Tail(nested_fields) = <<>>
              THEN [i \in 1..Len(children) |-> DictUpdate(children[i], below)]
              ELSE ClosestAncestorRecords(children, Tail(nested_fields), below,
                                          propagate_fields))
             \o ClosestAncestorRecords(Tail(objs), nested_fields, inherited, propagate_fields)

Wrapped(records) ==
    [i \in 1..Len(records) |->
        IF extractor.prefix_key # None THEN Val(extractor.prefix_key) :> records[i]
        ELSE records[i]]

\* C13: for a path of length >= 1, extract_records returns the objects at the end of
\* the path in document order, each carrying every propagated field that an object
\* above it has, at the value of the closest such object, and wrapped under the
\* prefix key when one is set.
C13_ClosestAncestorWins ==
    (xpc = "done" /\ extractor.nested_fields # <<>>) =>
        /\ Val(extracted).raised = None
        /\ Val(extracted).records
               = Wrapped(ClosestAncestorRecords(<<response_json>>, extractor.nested_fields,
                                                EmptyDict, extractor.propagate_fields))

\* C14: an extractor configured with an empty path does not exist: __post_init__
\* raised for it, and extract_records never ran on it.
C14_EmptyPathRejected ==
    extractor.nested_fields = <<>> => (extractor.raised # None /\ extracted = None)

(***************************************************************************)
(* Properties of the report selectors (SpecSelect)                         *)
(***************************************************************************)

\* The meta fields the selector is to copy: the configured list, and when none is
\* configured {reportId}, or {reportId, startDate, endDate} for the incremental one.
MetaFieldsToCopy ==
    IF selector.meta_fields # None THEN FieldSet(Val(selector.meta_fields))
    ELSE IF selector.class = "RailzAiReportsSelector" THEN {"reportId"}
    ELSE {"reportId", "startDate", "endDate"}

\* The data objects of a record, a single object counting as a list of one.
DataObjectsOf(record) ==
    IF record.data.list THEN record.data.objects ELSE <<record.data.object>>

\* How many rows the records before the i-th one give.
RECURSIVE RowsBefore(_)
RowsBefore(i) == IF i = 1 THEN 0 ELSE RowsBefore(i - 1) + Len(DataObjectsOf(raw_records[i - 1]))

\* C15: select_records returns, for each {data, meta} record and each data object of it,
\* exactly one row: the data object overlaid with the meta entries whose key is among
\* the meta fields to copy, meta winning on a collision, every other meta entry dropped.
C15_RowsAreDataOverlaidWithMeta ==
    selected # None =>
        /\ Len(Val(selected)) = RowsBefore(Len(raw_records) + 1)
        /\ \A i \in 1..Len(raw_records) :
               \A j \in 1..Len(DataObjectsOf(raw_records[i])) :
                   LET row == Val(selected)[RowsBefore(i) + j]
                       object == DataObjectsOf(raw_records[i])[j]
                       meta == raw_records[i].meta
                       copied == DOMAIN meta \cap MetaFieldsToCopy
                   IN  /\ DOMAIN row = DOMAIN object \cup copied
                       /\ \A k \in DOMAIN row :
                              row[k] = IF k \in copied THEN meta[k] ELSE object[k]

(***************************************************************************)
(* Properties of get_request_params (SpecWindows)                          *)
(***************************************************************************)

\* What get_request_params is to return for the slice it was last given.
ParamsSlice == Val(lastParams.stream_slice)
C16_Params ==
    lastParams.called =>
        IF lastParams.stream_slice = None THEN lastParams.params = EmptyDict
        ELSE /\ lastParams.params["businessName"] = ParamsSlice.businessName
             /\ lastParams.params["serviceName"] = ParamsSlice.serviceName
             /\ CASE lastParams.class = "service" ->
                       DOMAIN lastParams.params = {"businessName", "serviceName"}
                  [] lastParams.class = "incremental" ->
                       /\ DOMAIN lastParams.params
                              = {"businessName", "serviceName", CursorField}
                       /\ lastParams.params[CursorField]
                              = <<"gte:", ParamsSlice.start_time, ";lte:", ParamsSlice.end_time>>
                  [] lastParams.class = "reports" ->
                       /\ DOMAIN lastParams.params
                              = {"businessName", "serviceName", "startDate", "endDate"}
                       /\ lastParams.params["startDate"] = ParamsSlice.start_time
                       /\ lastParams.params["endDate"] = ParamsSlice.end_time

\* A get_request_params call leaves the cursors of the slicers as they were.
C16_CursorKept ==
    (lastParams' # lastParams /\ lastParams'.called) =>
        (_cursor' = _cursor /\ _icursor' = _icursor)

\* C16: get_request_params returns the empty mapping when no slice is given; for a
\* slice it returns the slice's businessName and serviceName, and in the incremental
\* classes also either the cursor field as "gte:<start>;lte:<end>" or the start and
\* end parameters, from the slice's own window start and end; it changes no cursor.
C16_RequestParamsFromSlice == []C16_Params /\ [][C16_CursorKept]_vars

\* C16's case: the request parameters of the incremental slicer for a window whose
\* end is later than its start.
C16_Witness ==
    /\ lastParams.called
    /\ lastParams.class = "incremental"
    /\ lastParams.stream_slice # None
    /\ ParamsSlice.start_time < ParamsSlice.end_time
    /\ lastParams.params[CursorField] = <<"gte:", 1, ";lte:", 2>>

(***************************************************************************)
(* Properties of a sync (FairSpecSync)                                     *)
(***************************************************************************)

\* The token fetch of the last read failed, and that exception left read_records.
TokenFetchFailed == lastRead.called /\ lastRead.raised = Some("AuthError")

\* A completed sync has read every slice and has emitted every record the source
\* held for the slices of the services that did not fail.
C17_CompletedWithAllRecords ==
    sync.status = "completed" =>
        /\ sync.reads = todo
        /\ \A s \in ServiceNames \ readErrors : emitted[s] = held[s]

\* The sync is aborted exactly when a token fetch failed, and ReadException alone
\* never aborts it.
C17_AbortedIffFetchFailed == (sync.status = "aborted") <=> TokenFetchFailed

\* An aborted sync reads no later slice and emits nothing more.
C17_NothingAfterAbort ==
    sync.status = "aborted" =>
        (sync' = sync /\ emitted' = emitted /\ lastRead' = lastRead /\ readErrors' = readErrors)

\* C17: a sync over a finite sequence of slices whose reads succeed or fail with
\* ReadException eventually completes after reading every slice, with the records of
\* all slices whose service did not fail emitted; a sync in which a token fetch fails
\* is aborted by that read and reads no later slice.
C17_SyncCompletesOrAbortsOnAuth ==
    /\ <>(sync.status = "completed" \/ TokenFetchFailed)
    /\ []C17_CompletedWithAllRecords
    /\ []C17_AbortedIffFetchFailed
    /\ [][C17_NothingAfterAbort]_vars

\* C17's case: the sync completed all of its slices although a service failed, and
\* emitted the records of the other service.
C17_Witness ==
    /\ sync.status = "completed"
    /\ sync.reads = MaxSlices
    /\ readErrors = {"S1"}
    /\ lastRead.priorError /\ ~lastRead.delegated
    /\ emitted["S2"] > 0
    /\ emitted["S1"] < held["S1"]

(***************************************************************************)
(* Properties of a resumed sync of the incremental slicer (SpecResume)     *)
(***************************************************************************)

\* The pairs the persisted state holds a cursor value for.
PersistedPairs == { p \in Pairs : StoredCursor(stream_state, p[1], p[2]) # None }

\* C19: at every checkpoint of a sync resumed from a persisted state, the state the
\* slicer reports holds, for every pair of the persisted state, a value that is at
\* least the persisted one, whatever records the sync has read for the pair.
C19_ResumptionDoesNotRegress ==
    (wpc = "sliced" /\ wpos >= 1) =>
        \A p \in PersistedPairs :
            LET reported == StoredCursor(get_stream_state(_icursor), p[1], p[2])
            IN  /\ reported # None
                /\ Val(reported) >= Val(StoredCursor(stream_state, p[1], p[2]))

====
